---- MODULE Spec2Model ----
(***************************************************************************)
(* Model of the trajectory converter, src/convert_trajectory.py.           *)
(*                                                                         *)
(* Text is a sequence of symbols.  A symbol is one character ("\n", " ",   *)
(* a digit, "x") or one indivisible piece of a literal the code searches   *)
(* for (a command keyword, one line of a boilerplate literal).  None is    *)
(* the empty tuple and a present optional value v is <<v>>.  A JSON object *)
(* is a record whose domain is the set of keys it holds.                   *)
(***************************************************************************)
EXTENDS Integers, Sequences, FiniteSets, TLC

VARIABLES
    pc,                         \* position of the run of main()
    file,                       \* what the input path holds
    input_data,                 \* the parsed document (main, line 455)
    step_zero,                  \* convert_trajectory locals, lines 314-322
    trajectory_steps,
    clustered_steps,
    all_steps,
    next_step,                  \* position of the loop of line 378
    result,
    current_workspace_metadata,
    output_file,                \* what this run wrote at the output path
    printed,                    \* the messages printed
    exit_code,                  \* the exit status of the process
    args,                       \* the arguments of a call of a pure function
    rets,                       \* the values the successive calls returned
    calls                       \* the frames of calls of convert_trajectory

vars == <<pc, file, input_data, step_zero, trajectory_steps, clustered_steps,
          all_steps, next_step, result, current_workspace_metadata,
          output_file, printed, exit_code, args, rets, calls>>

mainVars == <<pc, file, input_data, step_zero, trajectory_steps,
              clustered_steps, all_steps, next_step, result,
              current_workspace_metadata, output_file, printed, exit_code>>

callVars == <<args, rets, calls>>

None == <<>>
Some(v) == <<v>>

----------------------------------------------------------------------------
(* Python's str operations on Text.                                        *)

Whitespace == {" ", "\n"}

IsSpace(c) == c \in Whitespace

RECURSIVE RStrip(_)
RStrip(t) ==
    IF t = <<>> THEN t
    ELSE IF IsSpace(t[Len(t)]) THEN RStrip(SubSeq(t, 1, Len(t) - 1))
    ELSE t

RECURSIVE LStrip(_)
LStrip(t) ==
    IF t = <<>> THEN t
    ELSE IF IsSpace(t[1]) THEN LStrip(Tail(t))
    ELSE t

Strip(t) == LStrip(RStrip(t))

\* lit occupies t[i .. i + Len(lit) - 1]
StartsAt(t, lit, i) ==
    /\ i >= 1
    /\ i + Len(lit) - 1 <= Len(t)
    /\ SubSeq(t, i, i + Len(lit) - 1) = lit

\* `lit in t`
Contains(t, lit) == \E i \in 1..Len(t) : StartsAt(t, lit, i)

\* t.find(lit), 1-based; 0 when lit does not occur
Find(t, lit) ==
    IF Contains(t, lit)
    THEN CHOOSE i \in 1..Len(t) :
            /\ StartsAt(t, lit, i)
            /\ \A j \in 1..(i - 1) : ~StartsAt(t, lit, j)
    ELSE 0

\* t.replace(lit, ''): the occurrences are taken left to right, without
\* overlap, in one pass
RECURSIVE RemoveAll(_, _)
RemoveAll(t, lit) ==
    IF Len(t) < Len(lit) THEN t
    ELSE IF StartsAt(t, lit, 1)
         THEN RemoveAll(SubSeq(t, Len(lit) + 1, Len(t)), lit)
         ELSE <<t[1]>> \o RemoveAll(Tail(t), lit)

----------------------------------------------------------------------------
(* clean_openfile_observation                                              *)

ClippedLine1 == "<response clipped><NOTE>To save on context only part of this file has been shown to you. You should retry this tool after you have searched inside the file with grep -n in order to find the line numbers of what you are looking for.</NOTE>"

ClippedLine2 == "<IMPORTANT><NOTE>The above file has been abbreviated. Please use str_replace editor view with view_range to look at relevant files in detail.</NOTE></IMPORTANT>"

\* the literal of line 101: its first line, the line break, its second line
\* (the symbols are written without the literal's backquotes)
clipped_ending == <<ClippedLine1, "\n", ClippedLine2>>

clean_openfile_observation(observation_text) ==
    IF observation_text = <<>> THEN observation_text
    ELSE IF Contains(observation_text, clipped_ending)
         THEN RStrip(RemoveAll(observation_text, clipped_ending))
         ELSE observation_text

----------------------------------------------------------------------------
(* Regular-expression pieces shared by the patterns of parse_action.       *)

DigitValue(c) ==
    CASE c = "0" -> 0 [] c = "1" -> 1 [] c = "2" -> 2 [] c = "3" -> 3
      [] c = "4" -> 4 [] c = "5" -> 5 [] c = "6" -> 6 [] c = "7" -> 7
      [] c = "8" -> 8 [] c = "9" -> 9

IsDigit(c) == c \in {"0", "1", "2", "3", "4", "5", "6", "7", "8", "9"}

\* int() of a run of digits
RECURSIVE IntOf(_)
IntOf(ds) ==
    IF ds = <<>> THEN 0
    ELSE IntOf(SubSeq(ds, 1, Len(ds) - 1)) * 10 + DigitValue(ds[Len(ds)])

\* t[a .. b] is white space (true of an empty range)
AllSpace(t, a, b) == \A k \in a..b : IsSpace(t[k])

\* the first position from p on that holds no white space; Len(t) + 1 if none
FirstNonSpace(t, p) ==
    CHOOSE q \in p..(Len(t) + 1) :
        /\ AllSpace(t, p, q - 1)
        /\ q <= Len(t) => ~IsSpace(t[q])

\* the last position of the run of digits that starts at q
EndOfDigits(t, q) ==
    CHOOSE r \in q..Len(t) :
        /\ \A k \in q..r : IsDigit(t[k])
        /\ r < Len(t) => ~IsDigit(t[r + 1])

\* \s+ then the keyword: the position of kw when t[p ..] is white space,
\* at least one, followed by kw; 0 otherwise
AfterSpaces(t, p, kw) ==
    LET q == FirstNonSpace(t, p)
    IN  IF q > p /\ q <= Len(t) /\ t[q] = kw THEN q ELSE 0

Min(S) == CHOOSE x \in S : \A y \in S : x <= y

\* re.finditer(r'\n\s*(\d+)', t) from position `from` on, as integers
RECURSIVE LineNumbersFrom(_, _)
LineNumbersFrom(t, from) ==
    LET starts == {p \in from..Len(t) :
                     /\ t[p] = "\n"
                     /\ LET q == FirstNonSpace(t, p + 1)
                        IN  q <= Len(t) /\ IsDigit(t[q])}
    IN  IF starts = {} THEN <<>>
        ELSE LET p == Min(starts)
                 q == FirstNonSpace(t, p + 1)
                 r == EndOfDigits(t, q)
             IN  <<IntOf(SubSeq(t, q, r))>> \o LineNumbersFrom(t, r + 1)

SeqMin(s) == CHOOSE x \in {s[k] : k \in 1..Len(s)} :
                \A k \in 1..Len(s) : x <= s[k]

SeqMax(s) == CHOOSE x \in {s[k] : k \in 1..Len(s)} :
                \A k \in 1..Len(s) : x >= s[k]

\* \s+(.+?)\s+kw after the keyword at j: the group is t[gs .. ge] and kw is
\* at k.  Without re.DOTALL the group holds no line break.
GroupPairs(t, j, kw, dotall) ==
    LET first == {gs \in (j + 2)..Len(t) : AllSpace(t, j + 1, gs - 1)}
        last == {ge \in (j + 2)..(Len(t) - 2) :
                    IsSpace(t[ge + 1]) /\ AfterSpaces(t, ge + 1, kw) # 0}
    IN  {[gs |-> g[1], ge |-> g[2], k |-> AfterSpaces(t, g[2] + 1, kw)] :
            g \in {h \in first \X last :
                     /\ h[2] >= h[1]
                     /\ dotall \/ \A m \in h[1]..h[2] : t[m] # "\n"}}

\* the order in which the matcher tries them: \s+ is greedy, (.+?) is lazy
BestPair(S) ==
    CHOOSE x \in S :
        \A y \in S : x.gs > y.gs \/ (x.gs = y.gs /\ x.ge <= y.ge)

\* \s+(.+) with re.DOTALL after the keyword at k
TailOK(t, k) == k + 2 <= Len(t) /\ IsSpace(t[k + 1])

TailGroup(t, k) ==
    LET f == FirstNonSpace(t, k + 1)
    IN  SubSeq(t, IF f <= Len(t) THEN f ELSE Len(t), Len(t))

\* re.search(r"str_replace_editor\s+create\s+(.+?)\s+--file_text\s+(.+)",
\*           t, flags=re.DOTALL)
CreatePairs(t, i) ==
    LET j == AfterSpaces(t, i + 1, "create")
    IN  IF t[i] = "str_replace_editor" /\ j # 0
        THEN {x \in GroupPairs(t, j, "--file_text", TRUE) : TailOK(t, x.k)}
        ELSE {}

create_match(t) ==
    LET starts == {i \in 1..Len(t) : CreatePairs(t, i) # {}}
    IN  IF starts = {} THEN None
        ELSE LET x == BestPair(CreatePairs(t, Min(starts)))
             IN  Some([g1 |-> SubSeq(t, x.gs, x.ge), g2 |-> TailGroup(t, x.k)])

\* re.search(r"str_replace_editor\s+str_replace\s+(.+?)\s+--old_str\s+(.+?)
\*             \s+--new_str\s+(.+)", t, flags=re.DOTALL)
NewStrPairs(t, k) ==
    {y \in GroupPairs(t, k, "--new_str", TRUE) : TailOK(t, y.k)}

OldStrPairs(t, i) ==
    LET j == AfterSpaces(t, i + 1, "str_replace")
    IN  IF t[i] = "str_replace_editor" /\ j # 0
        THEN {x \in GroupPairs(t, j, "--old_str", TRUE) :
                NewStrPairs(t, x.k) # {}}
        ELSE {}

str_replace_match(t) ==
    LET starts == {i \in 1..Len(t) : OldStrPairs(t, i) # {}}
    IN  IF starts = {} THEN None
        ELSE LET x == BestPair(OldStrPairs(t, Min(starts)))
                 y == BestPair(NewStrPairs(t, x.k))
             IN  Some([g1 |-> SubSeq(t, x.gs, x.ge),
                       g2 |-> SubSeq(t, y.gs, y.ge),
                       g3 |-> TailGroup(t, y.k)])

\* (\d+)\s+(\d+) after \s+ behind the keyword at k: the two runs of digits
RangeAt(t, k) ==
    LET d1s == FirstNonSpace(t, k + 1)
    IN  IF d1s > k + 1 /\ d1s <= Len(t) /\ IsDigit(t[d1s])
        THEN LET d1e == EndOfDigits(t, d1s)
                 d2s == FirstNonSpace(t, d1e + 1)
             IN  IF d2s > d1e + 1 /\ d2s <= Len(t) /\ IsDigit(t[d2s])
                 THEN Some([first |-> IntOf(SubSeq(t, d1s, d1e)),
                            second |-> IntOf(SubSeq(t, d2s,
                                                    EndOfDigits(t, d2s)))])
                 ELSE None
        ELSE None

\* re.match(r'str_replace_editor\s+view\s+(.+?)\s+--view_range\s+(\d+)\s+(\d+)', t)
ViewRangePairs(t) ==
    LET j == AfterSpaces(t, 2, "view")
    IN  IF t # <<>> /\ t[1] = "str_replace_editor" /\ j # 0
        THEN {x \in GroupPairs(t, j, "--view_range", FALSE) :
                RangeAt(t, x.k) # None}
        ELSE {}

view_range_match(t) ==
    IF ViewRangePairs(t) = {} THEN None
    ELSE LET x == BestPair(ViewRangePairs(t))
         IN  Some([g1 |-> SubSeq(t, x.gs, x.ge),
                   g2 |-> RangeAt(t, x.k)[1].first,
                   g3 |-> RangeAt(t, x.k)[1].second])

\* the last position of the stretch without a line break that starts at p
EndOfLine(t, p) ==
    CHOOSE r \in p..Len(t) :
        /\ \A m \in p..r : t[m] # "\n"
        /\ r < Len(t) => t[r + 1] = "\n"

\* re.match(r'str_replace_editor\s+view\s+(.+)', t)
view_match(t) ==
    LET j == AfterSpaces(t, 2, "view")
    IN  IF t # <<>> /\ t[1] = "str_replace_editor" /\ j # 0
        THEN LET gs == FirstNonSpace(t, j + 1)
             IN  IF gs > j + 1 /\ gs <= Len(t)
                 THEN Some([g1 |-> SubSeq(t, gs, EndOfLine(t, gs))])
                 ELSE None
        ELSE None

----------------------------------------------------------------------------
(* extract_workspace_from_observation, get_workspace_from_action           *)

ContentMarker == "=========FILE CONTENT======="

extract_workspace_from_observation(observation_text, file_path) ==
    LET head == IF file_path # <<>>
                THEN <<"<workspace>", "\n">> \o file_path
                        \o <<"\n", ContentMarker>>
                ELSE <<"<workspace>", "\n", "\n", ContentMarker>>
        foot == <<"\n", ContentMarker, "\n", "</workspace>">>
        newline_index == Find(observation_text, <<"\n">>)
    IN  IF observation_text = <<>> THEN head \o <<"\n">> \o foot
        ELSE IF newline_index # 0
             THEN head \o SubSeq(observation_text, newline_index,
                                 Len(observation_text)) \o foot
             ELSE head \o <<"\n">> \o observation_text \o foot

\* an action record is a dict; the placeholder of an empty action is a str
IsDict(action) == "name" \in DOMAIN action

get_workspace_from_action(action) ==
    IF IsDict(action) /\ "output" \in DOMAIN action /\ action.output # None
    THEN IF "workspace" \in DOMAIN action.output[1]
         THEN Some(action.output[1].workspace)
         ELSE None
    ELSE None

----------------------------------------------------------------------------
(* parse_action                                                            *)

\* a JSON value that is not a string (a number, say) where text is expected
NotAString == <<"<number>">>

Placeholder == [placeholder |-> "<actions>"]

EmptyDict == <<>>

ReviewEnding ==
    <<"\n", "Review the changes and make sure they are as expected. Edit the file again if necessary.", "\n">>

ExpectedPattern ==
    "Here's the files and directories up to 2 levels deep in /testbed, excluding hidden items:"

\* a slip of sign in the end bound
ReplaceLineBounds_SameSign(observation_text) ==
    LET line_numbers == LineNumbersFrom(observation_text, 1)
    IN  IF observation_text # <<>> /\ line_numbers # <<>>
        THEN [replace_start_line |-> Some(SeqMin(line_numbers) + 4),
              replace_end_line |-> Some(SeqMax(line_numbers) + 4)]
        ELSE [replace_start_line |-> None, replace_end_line |-> None]

\* lines 199-211: the line bounds of a str_replace
ReplaceLineBounds(observation_text) ==
    LET line_numbers == LineNumbersFrom(observation_text, 1)
    IN  IF observation_text # <<>> /\ line_numbers # <<>>
        THEN [replace_start_line |-> Some(SeqMin(line_numbers) + 4),
              replace_end_line |-> Some(SeqMax(line_numbers) - 4)]
        ELSE [replace_start_line |-> None, replace_end_line |-> None]

\* lines 213-218
CleanReview(observation_text) ==
    IF observation_text # <<>> /\ Contains(observation_text, ReviewEnding)
    THEN RStrip(RemoveAll(observation_text, ReviewEnding))
    ELSE observation_text

EndInteraction(observation_text) ==
    [name |-> "endInteraction",
     input |-> [answer |-> observation_text],
     output |-> None,
     metadata |-> EmptyDict]

CreateFile(m) ==
    LET file_path == Strip(m.g1)
        file_content == Strip(m.g2)
    IN  [name |-> "createFile",
         input |-> [file_path |-> file_path, file_content |-> file_content],
         output |-> Some([workspace |->
                     <<"<workspace>", "\n", "/testbed/reproduce.py", "\n",
                       ContentMarker, "\n">> \o file_content
                       \o <<"\n", ContentMarker, "\n", "</workspace>">>]),
         metadata |-> EmptyDict]

ReplaceCodeString(m, observation_text) ==
    LET file_path == Strip(m.g1)
        bounds == ReplaceLineBounds(observation_text)
    IN  [name |-> "replaceCodeString",
         input |-> [file_path |-> file_path,
                    find |-> Strip(m.g2),
                    replace |-> Strip(m.g3),
                    replace_start_line |-> bounds.replace_start_line,
                    replace_end_line |-> bounds.replace_end_line],
         output |-> Some([workspace |->
                     extract_workspace_from_observation(
                         CleanReview(observation_text), file_path)]),
         metadata |-> EmptyDict]

SelectCodeBlock(m, observation_text) ==
    LET file_path == Strip(m.g1)
    IN  [name |-> "selectCodeBlock",
         input |-> [file_path |-> file_path,
                    line_ranges |-> <<<<m.g2, m.g3>>>>],
         output |-> Some([workspace |->
                     extract_workspace_from_observation(observation_text,
                                                        file_path)]),
         metadata |-> EmptyDict]

\* lines 256-295; the error lines of line 269 are computed and dropped
ViewPath(m, observation_text) ==
    LET path == Strip(m.g1)
        pattern_index == Find(observation_text, <<ExpectedPattern>>)
    IN  IF observation_text # <<>> /\ pattern_index # 0
        THEN [name |-> "executeCmd",
              input |-> [cmd |-> <<"find ">> \o path
                                   \o <<" -maxdepth 2 -not -path '*/\\.*'">>],
              output |-> Some([stdout |->
                          Strip(SubSeq(observation_text, pattern_index + 1,
                                       Len(observation_text)))]),
              metadata |-> EmptyDict]
        ELSE [name |-> "openFile",
              input |-> [file_path |-> path],
              output |-> Some([workspace |->
                          extract_workspace_from_observation(
                              clean_openfile_observation(observation_text),
                              path)]),
              metadata |-> EmptyDict]

\* the command trimmed
ExecuteCmd_Stripped(action_text, observation_text) ==
    [name |-> "executeCmd",
     input |-> [cmd |-> Strip(action_text)],
     output |-> Some([stdout |-> observation_text]),
     metadata |-> EmptyDict]

\* lines 297-307
ExecuteCmd(action_text, observation_text) ==
    [name |-> "executeCmd",
     input |-> [cmd |-> action_text],
     output |-> Some([stdout |-> observation_text]),
     metadata |-> EmptyDict]

\* action_text.strip() of a value that is no string raises AttributeError
ParseRaises(action_text) == action_text = NotAString

\* the view rule tried ahead of the view_range rule
parse_action_ViewFirst(action_text, observation_text) ==
    IF action_text = <<>> THEN <<Placeholder>>
    ELSE LET t == Strip(action_text)
             create == create_match(t)
             str_replace == str_replace_match(t)
             view_range == view_range_match(t)
             view == view_match(t)
         IN  IF t = <<"submit">> THEN <<EndInteraction(observation_text)>>
             ELSE IF create # None THEN <<CreateFile(create[1])>>
             ELSE IF str_replace # None
             THEN <<ReplaceCodeString(str_replace[1], observation_text)>>
             ELSE IF view # None THEN <<ViewPath(view[1], observation_text)>>
             ELSE IF view_range # None
             THEN <<SelectCodeBlock(view_range[1], observation_text)>>
             ELSE <<ExecuteCmd(action_text, observation_text)>>

\* lines 146-307
parse_action(action_text, observation_text) ==
    IF action_text = <<>> THEN <<Placeholder>>
    ELSE LET t == Strip(action_text)
             create == create_match(t)
             str_replace == str_replace_match(t)
             view_range == view_range_match(t)
             view == view_match(t)
         IN  IF t = <<"submit">> THEN <<EndInteraction(observation_text)>>
             ELSE IF create # None THEN <<CreateFile(create[1])>>
             ELSE IF str_replace # None
             THEN <<ReplaceCodeString(str_replace[1], observation_text)>>
             ELSE IF view_range # None
             THEN <<SelectCodeBlock(view_range[1], observation_text)>>
             ELSE IF view # None THEN <<ViewPath(view[1], observation_text)>>
             ELSE <<ExecuteCmd(action_text, observation_text)>>

----------------------------------------------------------------------------
(* convert_trajectory: its steps as operators.  items is the input array;  *)
(* the lists of steps hold references to its records, here positions.      *)

Has(d, key) == key \in DOMAIN d

Get(d, key, default) == IF Has(d, key) THEN d[key] ELSE default

\* isinstance(item, dict)
IsObject(item) == ~Has(item, "nonobject")

\* item.get('isStepZero')
IsStepZero(item) == Has(item, "isStepZero") /\ item.isStepZero = TRUE

\* item.get('clustered') == True, item.get('clustered') == False
IsClustered(item) == Has(item, "clustered") /\ item.clustered = TRUE

\* a record without the field taken for an ordinary step
IsOrdinary_Default(item) == ~Has(item, "clustered") \/ item.clustered = FALSE

IsOrdinary(item) == Has(item, "clustered") /\ item.clustered = FALSE

\* x.get('originalIndex', 0)
OriginalIndex(item) == Get(item, "originalIndex", 0)

\* lines 319-331: the loop over the input array, up to position n
RECURSIVE Partition(_, _)
Partition(items, n) ==
    IF n = 0
    THEN [step_zero |-> None, trajectory_steps |-> <<>>,
          clustered_steps |-> <<>>]
    ELSE LET before == Partition(items, n - 1)
             item == items[n]
         IN  IF ~IsObject(item) THEN before
             ELSE IF IsStepZero(item)
             THEN [before EXCEPT !.step_zero = Some(n)]
             ELSE IF IsClustered(item)
             THEN [before EXCEPT !.clustered_steps = Append(@, n)]
             ELSE IF IsOrdinary(item)
             THEN [before EXCEPT !.trajectory_steps = Append(@, n)]
             ELSE before

\* a sort that is not stable: p goes ahead of the steps of its own key
SortedInsert_Strict(items, s, p) ==
    LET c == Cardinality({k \in 1..Len(s) :
                 OriginalIndex(items[s[k]]) < OriginalIndex(items[p])})
    IN  SubSeq(s, 1, c) \o <<p>> \o SubSeq(s, c + 1, Len(s))

\* list.sort(key=originalIndex): stable.  p goes behind the steps of s whose
\* key is at most its own.
SortedInsert(items, s, p) ==
    LET c == Cardinality({k \in 1..Len(s) :
                 OriginalIndex(items[s[k]]) <= OriginalIndex(items[p])})
    IN  SubSeq(s, 1, c) \o <<p>> \o SubSeq(s, c + 1, Len(s))

\* the list left as it was filled
SortByOriginalIndex_Unsorted(items, s) == s

RECURSIVE SortByOriginalIndex(_, _)
SortByOriginalIndex(items, s) ==
    IF s = <<>> THEN <<>>
    ELSE SortedInsert(items,
                      SortByOriginalIndex(items, SubSeq(s, 1, Len(s) - 1)),
                      s[Len(s)])

\* max(s, key=originalIndex): the first of the steps with the largest key
MaxByOriginalIndex(items, s) ==
    s[Min({k \in 1..Len(s) :
             \A j \in 1..Len(s) :
                 OriginalIndex(items[s[j]]) <= OriginalIndex(items[s[k]])})]

\* re.search(r'<pr_description>(.*?)</pr_description>', text, re.DOTALL),
\* for content that is a string
extract_problem_from_content(content) ==
    LET opens == {i \in 1..Len(content) :
                    /\ content[i] = "<pr_description>"
                    /\ \E j \in (i + 1)..Len(content) :
                          content[j] = "</pr_description>"}
    IN  IF content = <<>> \/ opens = {} THEN None
        ELSE LET i == Min(opens)
                 j == Min({k \in (i + 1)..Len(content) :
                             content[k] = "</pr_description>"})
             IN  Some(Strip(SubSeq(content, i + 1, j - 1)))

\* lines 343-347
LastObservation(items, traj) ==
    IF traj # <<>>
    THEN Some(Get(items[MaxByOriginalIndex(items, traj)], "observation",
                  <<"No observation available">>))
    ELSE None

\* lines 339-370
FirstEntry(items, zero, traj) ==
    LET content == Get(items[zero], "content", <<>>)
    IN  [id |-> 0,
         parent |-> None,
         actions |-> <<[name |-> "beginInteraction",
                        input |-> EmptyDict,
                        output |-> Some(
                            [user_prompt |-> content,
                             repo |-> Get(items[zero], "repo",
                                          <<"unknown/unknown">>),
                             problem |-> extract_problem_from_content(content)]),
                        metadata |-> EmptyDict]>>,
         thought |-> None,
         metadata |-> [patch |-> LastObservation(items, traj),
                       hints_text |-> "NA",
                       stage |-> "MAIN"]]

\* an action without an observation left out, as zip would
RECURSIVE ClusteredActions_Zip(_, _, _)
ClusteredActions_Zip(actions, observations, n) ==
    IF n = 0 THEN <<>>
    ELSE ClusteredActions_Zip(actions, observations, n - 1)
            \o (IF n <= Len(observations)
                THEN parse_action(actions[n], observations[n])
                ELSE <<>>)

\* lines 393-397: the actions of a clustered step, for its first n actions
RECURSIVE ClusteredActions(_, _, _)
ClusteredActions(actions, observations, n) ==
    IF n = 0 THEN <<>>
    ELSE ClusteredActions(actions, observations, n - 1)
            \o parse_action(actions[n],
                            IF n <= Len(observations) THEN observations[n]
                            ELSE <<>>)

ParsedActions(step) ==
    IF IsClustered(step)
    THEN ClusteredActions(Get(step, "actions", <<>>),
                          Get(step, "observations", <<>>),
                          Len(Get(step, "actions", <<>>)))
    ELSE parse_action(Get(step, "action", <<>>),
                      Get(step, "observation", <<>>))

\* whether the step makes parse_action raise
StepRaises(step) ==
    IF IsClustered(step)
    THEN \E n \in 1..Len(Get(step, "actions", <<>>)) :
            ParseRaises(Get(step, "actions", <<>>)[n])
    ELSE ParseRaises(Get(step, "action", <<>>))

\* `if workspace:` of lines 402 and 425
HasWorkspace(action) ==
    /\ get_workspace_from_action(action) # None
    /\ get_workspace_from_action(action)[1] # <<>>

\* the first action with a workspace taken for a clustered step too
ClusteredWorkspace_First(parsed_actions, current) ==
    LET with == {k \in 1..Len(parsed_actions) : HasWorkspace(parsed_actions[k])}
    IN  IF with = {} THEN current
        ELSE get_workspace_from_action(parsed_actions[Min(with)])[1]

\* lines 399-404: the last action of a clustered step with a workspace
\* overwrites the tracker
ClusteredWorkspace(parsed_actions, current) ==
    LET with == {k \in 1..Len(parsed_actions) : HasWorkspace(parsed_actions[k])}
    IN  IF with = {} THEN current
        ELSE get_workspace_from_action(
                 parsed_actions[CHOOSE k \in with : \A j \in with : j <= k])[1]

\* lines 422-427: the first action of an ordinary step with a workspace
OrdinaryWorkspace(parsed_actions, current) ==
    LET with == {k \in 1..Len(parsed_actions) : HasWorkspace(parsed_actions[k])}
    IN  IF with = {} THEN current
        ELSE get_workspace_from_action(parsed_actions[Min(with)])[1]

TrackWorkspace(step, parsed_actions, current) ==
    IF IsClustered(step) THEN ClusteredWorkspace(parsed_actions, current)
    ELSE OrdinaryWorkspace(parsed_actions, current)

\* numbering from 1
EntryId_FromOne(res) == Len(res) + 1

\* line 383
EntryId(res) == Len(res)

\* lines 383-438: the entry of one step, res being the entries so far
StepEntry(step, res, current) ==
    LET entry_id == EntryId(res)
        parsed_actions == ParsedActions(step)
    IN  [id |-> entry_id,
         parent |-> IF entry_id > 0 THEN Some(entry_id - 1) ELSE None,
         actions |-> parsed_actions,
         thought |-> IF IsClustered(step)
                     THEN Get(step, "thought", Get(step, "summary", <<>>))
                     ELSE Get(step, "thought", <<>>),
         metadata |-> [workspace |-> TrackWorkspace(step, parsed_actions,
                                                    current),
                       stage |-> "TESTING"]]

InitialWorkspace == <<"<workspace>", "\n", "</workspace>">>

\* lines 378-440 for the first n steps of all, behind the entries res0
RECURSIVE ConvertLoop(_, _, _, _)
ConvertLoop(items, all, res0, n) ==
    IF n = 0
    THEN [raised |-> FALSE, result |-> res0, current |-> InitialWorkspace]
    ELSE LET before == ConvertLoop(items, all, res0, n - 1)
             step == items[all[n]]
         IN  IF before.raised \/ StepRaises(step)
             THEN [before EXCEPT !.raised = TRUE]
             ELSE IF IsStepZero(step) THEN before
             ELSE LET entry == StepEntry(step, before.result, before.current)
                  IN  [raised |-> FALSE,
                       result |-> Append(before.result, entry),
                       current |-> entry.metadata.workspace]

\* the call as a whole, for an array: what it returns, or that it raised
convert_trajectory(items) ==
    LET parts == Partition(items, Len(items))
        traj == SortByOriginalIndex(items, parts.trajectory_steps)
        clus == SortByOriginalIndex(items, parts.clustered_steps)
        res0 == IF parts.step_zero # None
                THEN <<FirstEntry(items, parts.step_zero[1], traj)>>
                ELSE <<>>
        all == SortByOriginalIndex(items, traj \o clus)
        end == ConvertLoop(items, all, res0, Len(all))
    IN  [raised |-> end.raised,
         result |-> IF end.raised THEN <<>> ELSE end.result]

----------------------------------------------------------------------------
(* Bounded texts.                                                          *)

TextsOfLen(alphabet, n) == [1..n -> alphabet]

TextsUpTo(alphabet, n) == UNION {TextsOfLen(alphabet, k) : k \in 0..n}

----------------------------------------------------------------------------
(* The cleaner applied to an observation, and again to what it returned.   *)

MaxCleanLen == 6

CleanAlphabet == {ClippedLine1, "\n", ClippedLine2, "x"}

IdleMain ==
    /\ pc = "idle"
    /\ file = None
    /\ input_data = None
    /\ step_zero = None
    /\ trajectory_steps = <<>>
    /\ clustered_steps = <<>>
    /\ all_steps = <<>>
    /\ next_step = 0
    /\ result = <<>>
    /\ current_workspace_metadata = <<>>
    /\ output_file = None
    /\ printed = <<>>
    /\ exit_code = None

InitClean ==
    /\ IdleMain
    /\ args \in {<<t>> : t \in TextsUpTo(CleanAlphabet, MaxCleanLen)}
    /\ rets = <<>>
    /\ calls = <<>>

CleanCall ==
    /\ Len(rets) = 0
    /\ rets' = <<clean_openfile_observation(args[1])>>
    /\ UNCHANGED <<args, calls, mainVars>>

CleanAgain ==
    /\ Len(rets) = 1
    /\ rets' = Append(rets, clean_openfile_observation(rets[1]))
    /\ UNCHANGED <<args, calls, mainVars>>

NextClean == CleanCall \/ CleanAgain

SpecClean == InitClean /\ [][NextClean]_vars

\* C9: cleaning what the cleaner returned changes nothing
C9_CleanIdempotent == Len(rets) = 2 => rets[2] = rets[1]

----------------------------------------------------------------------------
(* parse_action applied to a str_replace command and an observation.       *)

MaxObsLen == 6

ObsAlphabet == {"\n", " ", "x", "1", "2"}

ReplaceCommand ==
    <<"str_replace_editor", " ", "str_replace", " ", "x", " ",
      "--old_str", " ", "x", " ", "--new_str", " ", "x">>

InitParse ==
    /\ IdleMain
    /\ args \in {<<ReplaceCommand, o>> : o \in TextsUpTo(ObsAlphabet, MaxObsLen)}
    /\ rets = <<>>
    /\ calls = <<>>

ParseCall ==
    /\ Len(rets) = 0
    /\ ~ParseRaises(args[1])
    /\ rets' = <<parse_action(args[1], args[2])>>
    /\ UNCHANGED <<args, calls, mainVars>>

NextParse == ParseCall

SpecParse == InitParse /\ [][NextParse]_vars

\* the integers of t that follow a line break, white space at most between
Candidates(t) ==
    {IntOf(SubSeq(t, q, r)) : <<q, r>> \in
        {w \in (1..Len(t)) \X (1..Len(t)) :
            /\ w[1] <= w[2]
            /\ \A k \in w[1]..w[2] : IsDigit(t[k])
            /\ w[2] < Len(t) => ~IsDigit(t[w[2] + 1])
            /\ \E p \in 1..(w[1] - 1) :
                  t[p] = "\n" /\ AllSpace(t, p + 1, w[1] - 1)}}

\* C10: a str_replace whose observation holds integers after line breaks
\* gets replace_start_line = min + 4 and replace_end_line = max - 4; with no
\* such integer both bounds are None; never one without the other
C10_LineBounds ==
    (Len(rets) = 1 /\ rets[1][1].name = "replaceCodeString") =>
        LET in == rets[1][1].input
            c == Candidates(args[2])
        IN  /\ (in.replace_start_line = None) <=> (in.replace_end_line = None)
            /\ c # {} =>
                 /\ in.replace_start_line = Some(Min(c) + 4)
                 /\ in.replace_end_line = Some(-Min({-x : x \in c}) - 4)
            /\ c = {} =>
                 /\ in.replace_start_line = None
                 /\ in.replace_end_line = None

\* line markers 11 and 22 give 15 and 18
C10_Witness ==
    /\ Len(rets) = 1
    /\ rets[1][1].name = "replaceCodeString"
    /\ Candidates(args[2]) = {11, 22}
    /\ rets[1][1].input.replace_start_line = Some(15)
    /\ rets[1][1].input.replace_end_line = Some(18)

----------------------------------------------------------------------------
(* parse_action on action texts put together from pieces of the editor     *)
(* commands, whole and broken, with and without an observation.            *)

MaxPieces == 3

Editor == "str_replace_editor"

\* the pieces an action text is put together from, a blank between two
Pieces ==
    {<<"x">>,
     <<"submit">>,
     <<"\n">>,
     <<Editor, " ", "create", " ", "/f">>,
     <<"--file_text", " ", "x">>,
     <<Editor, " ", "create", " ", "/f", " ", "--file_text", " ", "x">>,
     <<Editor, " ", "str_replace", " ", "/f", " ", "--old_str", " ", "x">>,
     <<"--new_str", " ", "x">>,
     <<Editor, " ", "view", " ", "/f">>,
     <<"--view_range", " ", "1", " ", "2">>}

RECURSIVE ActionTextsOf(_)
ActionTextsOf(n) ==
    IF n = 0 THEN {<<>>}
    ELSE IF n = 1 THEN Pieces
    ELSE {a \o <<" ">> \o p : a \in ActionTextsOf(n - 1), p \in Pieces}

ActionTextsUpTo(n) == UNION {ActionTextsOf(k) : k \in 0..n}

\* no observation (None or ''), a file's text, a directory listing
Observations ==
    {<<>>, <<"1", "\n", "x">>, <<"x", ExpectedPattern, "\n", "d", "\n">>}

InitClassify ==
    /\ IdleMain
    /\ args \in {<<a, o>> : a \in ActionTextsUpTo(MaxPieces),
                           o \in Observations}
    /\ rets = <<>>
    /\ calls = <<>>

NextClassify == ParseCall

SpecClassify == InitClassify /\ [][NextClassify]_vars

\* t[a .. b] is white space, one symbol at least
SpaceRun(t, a, b) == a <= b /\ \A m \in a..b : IsSpace(t[m])

\* whether the pattern of line 167 is found in t: the editor, `create`, a
\* path, `--file_text` and a content, white space between them.  With
\* re.DOTALL a group is any text, so two white spaces around one symbol
\* or more is all it takes
MatchesCreate(t) ==
    \E i \in 1..Len(t) : \E j \in (i + 2)..Len(t) :
        /\ t[i] = Editor /\ SpaceRun(t, i + 1, j - 1) /\ t[j] = "create"
        /\ \E k \in (j + 4)..(Len(t) - 2) :
              /\ IsSpace(t[j + 1]) /\ IsSpace(t[k - 1])
              /\ t[k] = "--file_text" /\ IsSpace(t[k + 1])

\* the pattern of line 189
MatchesStrReplace(t) ==
    \E i \in 1..Len(t) : \E j \in (i + 2)..Len(t) :
        /\ t[i] = Editor /\ SpaceRun(t, i + 1, j - 1)
        /\ t[j] = "str_replace"
        /\ \E k \in (j + 4)..Len(t) :
              /\ IsSpace(t[j + 1]) /\ IsSpace(t[k - 1])
              /\ t[k] = "--old_str"
              /\ \E m \in (k + 4)..(Len(t) - 2) :
                    /\ IsSpace(t[k + 1]) /\ IsSpace(t[m - 1])
                    /\ t[m] = "--new_str" /\ IsSpace(t[m + 1])

\* t[a .. b] is a run of digits, one at least
DigitRun(t, a, b) == a <= b /\ b <= Len(t) /\ \A m \in a..b : IsDigit(t[m])

\* the pattern of line 236, at the start of t: the path holds no line break
MatchesViewRange(t) ==
    /\ t # <<>> /\ t[1] = Editor
    /\ \E j \in 3..Len(t) :
          /\ SpaceRun(t, 2, j - 1) /\ t[j] = "view"
          /\ \E a \in (j + 2)..Len(t) : \E b \in a..Len(t) :
                /\ SpaceRun(t, j + 1, a - 1)
                /\ \A m \in a..b : t[m] # "\n"
                /\ \E k \in (b + 2)..Len(t) :
                      /\ SpaceRun(t, b + 1, k - 1) /\ t[k] = "--view_range"
                      /\ \E c \in (k + 2)..Len(t) : \E d \in c..Len(t) :
                            /\ SpaceRun(t, k + 1, c - 1) /\ DigitRun(t, c, d)
                            /\ \E e \in (d + 2)..Len(t) :
                                  /\ SpaceRun(t, d + 1, e - 1)
                                  /\ IsDigit(t[e])

\* the pattern of line 257, at the start of t
MatchesView(t) ==
    /\ t # <<>> /\ t[1] = Editor
    /\ \E j \in 3..Len(t) :
          /\ SpaceRun(t, 2, j - 1) /\ t[j] = "view"
          /\ \E c \in (j + 2)..Len(t) :
                SpaceRun(t, j + 1, c - 1) /\ t[c] # "\n"

MatchesNone(t) ==
    ~(MatchesCreate(t) \/ MatchesStrReplace(t) \/ MatchesViewRange(t)
        \/ MatchesView(t))

\* C11: a non-empty action text that is not "submit" once trimmed and
\* matches none of the four editor patterns gives one executeCmd record,
\* input.cmd the action text as given, output.stdout the observation, the
\* empty text when there is none
C11_FallbackIsExecuteCmd ==
    (/\ Len(rets) = 1
     /\ args[1] # <<>>
     /\ Strip(args[1]) # <<"submit">>
     /\ MatchesNone(Strip(args[1])))
    => rets[1] = <<[name |-> "executeCmd",
                    input |-> [cmd |-> args[1]],
                    output |-> Some([stdout |-> args[2]]),
                    metadata |-> EmptyDict]>>

\* a broken create command behind a line break, no observation: the
\* command goes out untrimmed, stdout is the empty text
C11_Witness ==
    /\ Len(rets) = 1
    /\ args[2] = <<>>
    /\ Len(args[1]) > 3
    /\ args[1][1] = "\n"
    /\ \E k \in 1..Len(args[1]) : args[1][k] = "create"
    /\ MatchesNone(Strip(args[1]))
    /\ rets[1][1].name = "executeCmd"
    /\ rets[1][1].input.cmd = args[1]
    /\ rets[1][1].output = Some([stdout |-> <<>>])

\* the number of the first rule of parse_action that applies to the pair
FirstRule(action_text) ==
    IF action_text = <<>> THEN 1
    ELSE LET t == Strip(action_text)
         IN  IF t = <<"submit">> THEN 2
             ELSE IF MatchesCreate(t) THEN 3
             ELSE IF MatchesStrReplace(t) THEN 4
             ELSE IF MatchesViewRange(t) THEN 5
             ELSE IF MatchesView(t) THEN 6
             ELSE 7

\* the variant a rule gives
VariantOf(rule, observation_text) ==
    CASE rule = 1 -> "<actions>"
      [] rule = 2 -> "endInteraction"
      [] rule = 3 -> "createFile"
      [] rule = 4 -> "replaceCodeString"
      [] rule = 5 -> "selectCodeBlock"
      [] rule = 6 -> IF Contains(observation_text, <<ExpectedPattern>>)
                     THEN "executeCmd" ELSE "openFile"
      [] rule = 7 -> "executeCmd"

\* the variant of a record, and the rule that built it: the executeCmd of
\* a directory listing runs `find`, the one of the fallback the action text
VariantIn(record) ==
    IF IsDict(record) THEN record.name ELSE record.placeholder

RuleIn(record, action_text) ==
    IF ~IsDict(record) THEN 1
    ELSE CASE record.name = "endInteraction" -> 2
           [] record.name = "createFile" -> 3
           [] record.name = "replaceCodeString" -> 4
           [] record.name = "selectCodeBlock" -> 5
           [] record.name = "openFile" -> 6
           [] record.name = "executeCmd" ->
                 IF record.input.cmd = action_text THEN 7 ELSE 6

\* C14: every pair gives exactly one record, built by the first rule that
\* applies in the order empty, submit, create, str_replace, view with
\* range, view, fallback, and of the variant of that rule
C14_FirstRuleWins ==
    Len(rets) = 1 =>
        /\ Len(rets[1]) = 1
        /\ RuleIn(rets[1][1], args[1]) = FirstRule(args[1])
        /\ VariantIn(rets[1][1]) = VariantOf(FirstRule(args[1]), args[2])

\* a text that starts as a view command with a range and holds a create
\* command matches three rules, and is a createFile
C14_Witness ==
    /\ Len(rets) = 1
    /\ MatchesView(Strip(args[1]))
    /\ MatchesViewRange(Strip(args[1]))
    /\ MatchesCreate(Strip(args[1]))
    /\ rets[1][1].name = "createFile"

----------------------------------------------------------------------------
(* A run of main(): the input file is read, converted, and written.        *)

MaxLen == 3

IndexValues == {1, 2}

ViewCommand == <<"str_replace_editor", " ", "view", " ", "/f">>

ShellCommand == <<"ls">>

ObsA == <<"a">>

ObsB == <<"h", "\n", "b">>

ContentWithProblem ==
    <<"<pr_description>", "\n", "fix", "\n", "</pr_description>", "go">>

NonObject == [nonobject |-> TRUE]

\* the second one has the fields of an ordinary step as well
StepZeroItems ==
    {[isStepZero |-> TRUE, content |-> ContentWithProblem, repo |-> <<"o/r">>],
     [isStepZero |-> TRUE, content |-> <<"hi">>, clustered |-> FALSE,
      originalIndex |-> 1, action |-> ShellCommand]}

\* not a dict, or a dict with neither flag
DroppedItems == {NonObject, [thought |-> <<"t">>]}

OrdinaryItems ==
    UNION {{[clustered |-> FALSE, originalIndex |-> i,
             action |-> ViewCommand, observation |-> ObsA,
             thought |-> <<"t">>],
            [clustered |-> FALSE, originalIndex |-> i,
             action |-> ShellCommand, observation |-> ObsB],
            [clustered |-> FALSE, originalIndex |-> i,
             action |-> ShellCommand],
            [clustered |-> FALSE, originalIndex |-> i,
             action |-> NotAString, observation |-> ObsA]} :
           i \in IndexValues}

ClusteredItems ==
    UNION {{[clustered |-> TRUE, originalIndex |-> i,
             actions |-> <<ViewCommand, ViewCommand>>,
             observations |-> <<ObsA, ObsB>>, summary |-> <<"s">>],
            [clustered |-> TRUE, originalIndex |-> i,
             actions |-> <<ViewCommand, ShellCommand>>,
             observations |-> <<ObsB>>],
            [clustered |-> TRUE, originalIndex |-> i,
             actions |-> <<ShellCommand>>,
             observations |-> <<ObsA>>]} :
           i \in IndexValues}

Items == StepZeroItems \cup DroppedItems \cup OrdinaryItems \cup ClusteredItems

\* the arrays of n items
ArraysOfLen(n) == [1..n -> Items]

Arrays == UNION {ArraysOfLen(n) : n \in 0..MaxLen}

\* the input path: no file, a file that is not JSON, a JSON document that
\* cannot be iterated (a number, null), a JSON array
Files ==
    {[kind |-> "missing"], [kind |-> "malformed"],
     [kind |-> "json", iterable |-> FALSE, items |-> <<>>]}
    \cup {[kind |-> "json", iterable |-> TRUE, items |-> a] : a \in Arrays}

Init ==
    /\ pc = "read"
    /\ file \in Files
    /\ input_data = None
    /\ step_zero = None
    /\ trajectory_steps = <<>>
    /\ clustered_steps = <<>>
    /\ all_steps = <<>>
    /\ next_step = 0
    /\ result = <<>>
    /\ current_workspace_metadata = <<>>
    /\ output_file = None
    /\ printed = <<>>
    /\ exit_code = None
    /\ args = <<>>
    /\ rets = <<>>
    /\ calls = <<>>

convVars == <<step_zero, trajectory_steps, clustered_steps, all_steps,
              next_step, result, current_workspace_metadata>>

\* sys.exit(1) behind a diagnostic
ExitWith(message) ==
    /\ printed' = Append(printed, message)
    /\ exit_code' = Some(1)
    /\ pc' = "exited"

\* lines 453-455
ReadInput ==
    /\ pc = "read"
    /\ file.kind = "json"
    /\ input_data' = Some([iterable |-> file.iterable, items |-> file.items])
    /\ pc' = "convert"
    /\ UNCHANGED <<file, convVars, output_file, printed, exit_code, callVars>>

\* lines 456-458
ReadFileNotFound ==
    /\ pc = "read"
    /\ file.kind = "missing"
    /\ ExitWith("Error: Input file not found.")
    /\ UNCHANGED <<file, input_data, convVars, output_file, callVars>>

\* lines 459-461
ReadInvalidJson ==
    /\ pc = "read"
    /\ file.kind = "malformed"
    /\ ExitWith("Error: Invalid JSON in input file")
    /\ UNCHANGED <<file, input_data, convVars, output_file, callVars>>

\* lines 466-468: any exception of convert_trajectory
ConversionError == ExitWith("Error during conversion")

\* lines 314-331
ConvertPartition ==
    /\ pc = "convert"
    /\ input_data[1].iterable
    /\ LET parts == Partition(input_data[1].items, Len(input_data[1].items))
       IN  /\ step_zero' = parts.step_zero
           /\ trajectory_steps' = parts.trajectory_steps
           /\ clustered_steps' = parts.clustered_steps
    /\ result' = <<>>
    /\ current_workspace_metadata' = InitialWorkspace
    /\ pc' = "sort"
    /\ UNCHANGED <<file, input_data, all_steps, next_step, output_file,
                   printed, exit_code, callVars>>

\* line 324 on a document that is no array: TypeError
ConvertNotIterable ==
    /\ pc = "convert"
    /\ ~input_data[1].iterable
    /\ ConversionError
    /\ UNCHANGED <<file, input_data, convVars, output_file, callVars>>

\* the sort applied to the input array itself
ConvertSort_InPlace ==
    /\ pc = "sort"
    /\ LET items == input_data[1].items
           order == SortByOriginalIndex(items, [k \in 1..Len(items) |-> k])
       IN  input_data' =
              Some([iterable |-> TRUE,
                    items |-> [k \in 1..Len(items) |-> items[order[k]]]])
    /\ pc' = "root"
    /\ UNCHANGED <<file, step_zero, trajectory_steps, clustered_steps,
                   all_steps, next_step, result, current_workspace_metadata,
                   output_file, printed, exit_code, callVars>>

\* lines 333-335
ConvertSort ==
    /\ pc = "sort"
    /\ trajectory_steps' =
          SortByOriginalIndex(input_data[1].items, trajectory_steps)
    /\ clustered_steps' =
          SortByOriginalIndex(input_data[1].items, clustered_steps)
    /\ pc' = "root"
    /\ UNCHANGED <<file, input_data, step_zero, all_steps, next_step, result,
                   current_workspace_metadata, output_file, printed,
                   exit_code, callVars>>

\* the root built only inside `if trajectory_steps:`
ConvertRoot_OnlyWithSteps ==
    /\ pc = "root"
    /\ result' = IF step_zero # None /\ trajectory_steps # <<>>
                 THEN Append(result, FirstEntry(input_data[1].items,
                                                step_zero[1],
                                                trajectory_steps))
                 ELSE result
    /\ pc' = "merge"
    /\ UNCHANGED <<file, input_data, step_zero, trajectory_steps,
                   clustered_steps, all_steps, next_step,
                   current_workspace_metadata, output_file, printed,
                   exit_code, callVars>>

\* lines 337-371
ConvertRoot ==
    /\ pc = "root"
    /\ result' = IF step_zero # None
                 THEN Append(result, FirstEntry(input_data[1].items,
                                                step_zero[1],
                                                trajectory_steps))
                 ELSE result
    /\ pc' = "merge"
    /\ UNCHANGED <<file, input_data, step_zero, trajectory_steps,
                   clustered_steps, all_steps, next_step,
                   current_workspace_metadata, output_file, printed,
                   exit_code, callVars>>

\* lines 373-375
ConvertMerge ==
    /\ pc = "merge"
    /\ all_steps' = SortByOriginalIndex(input_data[1].items,
                                        trajectory_steps \o clustered_steps)
    /\ next_step' = 1
    /\ pc' = "loop"
    /\ UNCHANGED <<file, input_data, step_zero, trajectory_steps,
                   clustered_steps, result, current_workspace_metadata,
                   output_file, printed, exit_code, callVars>>

\* lines 378-440: one turn of the loop
ConvertStep ==
    /\ pc = "loop"
    /\ next_step <= Len(all_steps)
    /\ LET step == input_data[1].items[all_steps[next_step]]
       IN  /\ ~StepRaises(step)
           /\ IF IsStepZero(step)
              THEN UNCHANGED <<result, current_workspace_metadata>>
              ELSE LET entry == StepEntry(step, result,
                                          current_workspace_metadata)
                   IN  /\ result' = Append(result, entry)
                       /\ current_workspace_metadata' =
                             entry.metadata.workspace
    /\ next_step' = next_step + 1
    /\ UNCHANGED <<pc, file, input_data, step_zero, trajectory_steps,
                   clustered_steps, all_steps, output_file, printed,
                   exit_code, callVars>>

\* lines 397 and 420: parse_action raises on the step
ConvertStepRaises ==
    /\ pc = "loop"
    /\ next_step <= Len(all_steps)
    /\ StepRaises(input_data[1].items[all_steps[next_step]])
    /\ ConversionError
    /\ UNCHANGED <<file, input_data, convVars, output_file, callVars>>

\* lines 442 and 465
ConvertReturn ==
    /\ pc = "loop"
    /\ next_step > Len(all_steps)
    /\ pc' = "write"
    /\ UNCHANGED <<file, input_data, convVars, output_file, printed,
                   exit_code, callVars>>

\* lines 472-475: the output file is created, or emptied
WriteOpen ==
    /\ pc = "write"
    /\ output_file' = Some([complete |-> FALSE, entries |-> <<>>])
    /\ pc' = "dump"
    /\ UNCHANGED <<file, input_data, convVars, printed, exit_code, callVars>>

\* lines 472-475 raising (no permission, say), lines 481-483
WriteOpenFails ==
    /\ pc = "write"
    /\ ExitWith("Error writing output file")
    /\ UNCHANGED <<file, input_data, convVars, output_file, callVars>>

\* lines 476-479, and the return of main
WriteDump ==
    /\ pc = "dump"
    /\ output_file' = Some([complete |-> TRUE, entries |-> result])
    /\ printed' = printed \o <<"Conversion successful!", "Converted entries.">>
    /\ exit_code' = Some(0)
    /\ pc' = "exited"
    /\ UNCHANGED <<file, input_data, convVars, callVars>>

\* the exception of the write swallowed: the run ends with status 0
WriteDumpFails_ExitZero ==
    /\ pc = "dump"
    /\ \E n \in 0..Len(result) :
          output_file' = Some([complete |-> FALSE,
                               entries |-> SubSeq(result, 1, n)])
    /\ printed' = Append(printed, "Error writing output file")
    /\ exit_code' = Some(0)
    /\ pc' = "exited"
    /\ UNCHANGED <<file, input_data, convVars, callVars>>

\* line 476 raising after n entries went out (a full disk, say),
\* lines 481-483
WriteDumpFails ==
    /\ pc = "dump"
    /\ \E n \in 0..Len(result) :
          output_file' = Some([complete |-> FALSE,
                               entries |-> SubSeq(result, 1, n)])
    /\ ExitWith("Error writing output file")
    /\ UNCHANGED <<file, input_data, convVars, callVars>>

Next ==
    \/ ReadInput
    \/ ReadFileNotFound
    \/ ReadInvalidJson
    \/ ConvertPartition
    \/ ConvertNotIterable
    \/ ConvertSort
    \/ ConvertRoot
    \/ ConvertMerge
    \/ ConvertStep
    \/ ConvertStepRaises
    \/ ConvertReturn
    \/ WriteOpen
    \/ WriteOpenFails
    \/ WriteDump
    \/ WriteDumpFails

Spec == Init /\ [][Next]_vars

----------------------------------------------------------------------------
(* Two calls of convert_trajectory, each on a document of its own, their   *)
(* steps in any order: one after the other, or interleaved.                *)

MaxDocLen == 2

Callers == {1, 2}

\* an ordinary step that opens a file, one that runs a command, one whose
\* action is no text, and a clustered step that opens two files
CallItems ==
    {x \in OrdinaryItems : x.originalIndex = 1 /\ Has(x, "observation")}
    \cup {x \in ClusteredItems : x.originalIndex = 1 /\ Has(x, "summary")}

Documents(n) == UNION {[1..k -> CallItems] : k \in 0..n}

\* the frame of a call that has not run a line yet
NewCall(doc) ==
    [input |-> doc, pc |-> "start", step_zero |-> None,
     trajectory_steps |-> <<>>, clustered_steps |-> <<>>, all_steps |-> <<>>,
     next_step |-> 0, result |-> <<>>, current_workspace_metadata |-> <<>>]

InitCalls ==
    /\ IdleMain
    /\ args = <<>>
    /\ rets = <<>>
    /\ calls \in {<<NewCall(a), NewCall(b)>> :
                    a \in Documents(MaxDocLen), b \in Documents(MaxDocLen)}

\* one tracker for the whole module: every call uses that of the first
TrackerOf_Global(c) == 1

\* line 317: current_workspace_metadata is a local of the call, so the
\* tracker call c reads and writes is the one of its own frame
TrackerOf(c) == c

\* lines 314-375
CallBegin(c) ==
    /\ calls[c].pc = "start"
    /\ LET items == calls[c].input
           parts == Partition(items, Len(items))
           ts == SortByOriginalIndex(items, parts.trajectory_steps)
           cs == SortByOriginalIndex(items, parts.clustered_steps)
           begun == [calls[c] EXCEPT
                        !.pc = "loop",
                        !.step_zero = parts.step_zero,
                        !.trajectory_steps = ts,
                        !.clustered_steps = cs,
                        !.result = IF parts.step_zero # None
                                   THEN <<FirstEntry(items,
                                                     parts.step_zero[1], ts)>>
                                   ELSE <<>>,
                        !.all_steps = SortByOriginalIndex(items, ts \o cs),
                        !.next_step = 1]
       IN  calls' = [[calls EXCEPT ![c] = begun] EXCEPT
                        ![TrackerOf(c)].current_workspace_metadata =
                            InitialWorkspace]
    /\ UNCHANGED <<mainVars, args, rets>>

\* lines 378-440: one turn of the loop of call c
CallStep(c) ==
    /\ calls[c].pc = "loop"
    /\ calls[c].next_step <= Len(calls[c].all_steps)
    /\ LET step == calls[c].input[calls[c].all_steps[calls[c].next_step]]
           entry == StepEntry(step, calls[c].result,
                        calls[TrackerOf(c)].current_workspace_metadata)
       IN  /\ ~StepRaises(step)
           /\ calls' =
                IF IsStepZero(step)
                THEN [calls EXCEPT ![c].next_step = @ + 1]
                ELSE [[calls EXCEPT ![c].next_step = @ + 1,
                                    ![c].result = Append(@, entry)] EXCEPT
                         ![TrackerOf(c)].current_workspace_metadata =
                             entry.metadata.workspace]
    /\ UNCHANGED <<mainVars, args, rets>>

\* lines 397 and 420: parse_action raises, the call ends with the exception
CallStepRaises(c) ==
    /\ calls[c].pc = "loop"
    /\ calls[c].next_step <= Len(calls[c].all_steps)
    /\ StepRaises(calls[c].input[calls[c].all_steps[calls[c].next_step]])
    /\ calls' = [calls EXCEPT ![c].pc = "raised"]
    /\ UNCHANGED <<mainVars, args, rets>>

\* line 442
CallReturn(c) ==
    /\ calls[c].pc = "loop"
    /\ calls[c].next_step > Len(calls[c].all_steps)
    /\ calls' = [calls EXCEPT ![c].pc = "returned"]
    /\ UNCHANGED <<mainVars, args, rets>>

NextCalls ==
    \E c \in Callers :
        \/ CallBegin(c)
        \/ CallStep(c)
        \/ CallStepRaises(c)
        \/ CallReturn(c)

SpecCalls == InitCalls /\ [][NextCalls]_vars

\* what call c gave: the list it returned, or the exception
CallOutcome(c) ==
    [raised |-> calls[c].pc = "raised",
     result |-> IF calls[c].pc = "raised" THEN <<>> ELSE calls[c].result]

\* C13: a call that ended, whatever the other call did in between, gives
\* what the conversion of its document alone gives; and a call starts
\* from the initial tracker value
C13_NoSharedState ==
    \A c \in Callers :
        /\ calls[c].pc \in {"returned", "raised"}
              => CallOutcome(c) = convert_trajectory(calls[c].input)
        /\ (calls[c].pc = "loop" /\ calls[c].next_step = 1)
              => calls[c].current_workspace_metadata = InitialWorkspace

\* the first call returned two entries with a workspace of its own while
\* the second, on another document, is half way with a different tracker
C13_Witness ==
    /\ calls[1].pc = "returned"
    /\ Len(calls[1].result) = 2
    /\ calls[1].result[2].metadata.workspace # InitialWorkspace
    /\ calls[2].pc = "loop"
    /\ calls[2].next_step = 2
    /\ Len(calls[2].all_steps) = 2
    /\ calls[2].input # calls[1].input
    /\ calls[2].current_workspace_metadata # InitialWorkspace
    /\ calls[2].current_workspace_metadata
          # calls[1].current_workspace_metadata

----------------------------------------------------------------------------
(* Properties of a run.                                                    *)

\* convert_trajectory has returned: result is what it returns
Returned == pc = "write"

ConversionFailed ==
    pc = "exited" /\ printed = <<"Error during conversion">>

InputItems == input_data[1].items

\* the number of entries ahead of the entries of the steps
Offset == IF step_zero # None THEN 1 ELSE 0

\* C1: the ids of the entries are 0 .. N-1 in output order, and every entry
\* with id > 0 has parent = id - 1, with or without a step-zero record
C1_ContiguousIds ==
    \A k \in 1..Len(result) :
        /\ result[k].id = k - 1
        /\ result[k].id > 0 => result[k].parent = Some(result[k].id - 1)

\* three entries returned for an input without a step-zero record
C1_Witness ==
    /\ Returned
    /\ step_zero = None
    /\ Len(result) = 3
    /\ result[3].id = 2
    /\ result[3].parent = Some(1)

\* the action records of the entries 1 .. k, in output order
RECURSIVE ActionsUpTo(_)
ActionsUpTo(k) ==
    IF k = 0 THEN <<>> ELSE ActionsUpTo(k - 1) \o result[k].actions

ProducesWorkspace(action) ==
    /\ Has(action, "output")
    /\ action.output # None
    /\ Has(action.output[1], "workspace")

\* the snapshot most recently produced at or before entry k
LastProduced(k) ==
    LET acts == ActionsUpTo(k)
        with == {i \in 1..Len(acts) : ProducesWorkspace(acts[i])}
    IN  IF with = {} THEN InitialWorkspace
        ELSE acts[CHOOSE i \in with : \A j \in with : j <= i]
                 .output[1].workspace

NonRoot(k) == result[k].metadata.stage = "TESTING"

\* C2: metadata.workspace of a non-root entry is the snapshot most recently
\* produced by an action at or before it, the initial value if there is
\* none; behind an entry with a produced snapshot no entry has the initial
\* value
C2_WorkspaceCarried ==
    /\ \A k \in 1..Len(result) :
          NonRoot(k) => result[k].metadata.workspace = LastProduced(k)
    /\ \A k \in 1..Len(result) : \A l \in (k + 1)..Len(result) :
          (NonRoot(k) /\ NonRoot(l)
              /\ result[k].metadata.workspace # InitialWorkspace)
          => result[l].metadata.workspace # InitialWorkspace

\* an entry whose actions produce no snapshot carries the one of an
\* earlier entry
C2_Witness ==
    /\ Returned
    /\ \E k \in 1..Len(result) : \E l \in (k + 1)..Len(result) :
          /\ NonRoot(k) /\ NonRoot(l)
          /\ \E i \in 1..Len(result[k].actions) :
                ProducesWorkspace(result[k].actions[i])
          /\ \A i \in 1..Len(result[l].actions) :
                ~ProducesWorkspace(result[l].actions[i])
          /\ result[l].metadata.workspace = result[k].metadata.workspace
          /\ result[l].metadata.workspace # InitialWorkspace

\* the array with the records at i and i + 1 exchanged
Exchanged(items, i) ==
    [k \in 1..Len(items) |->
        IF k = i THEN items[i + 1] ELSE IF k = i + 1 THEN items[i]
        ELSE items[k]]

\* what the run left of the conversion, as convert_trajectory gives it
Outcome ==
    [raised |-> ConversionFailed,
     result |-> IF ConversionFailed THEN <<>> ELSE result]

\* the same records in another order convert to the same output.  Every
\* reordering is a chain of exchanges of neighbours, and every array of
\* the chain is an input of its own.
SameWhenExchanged ==
    \A i \in 1..(Len(InputItems) - 1) :
        convert_trajectory(Exchanged(InputItems, i)) = Outcome

\* C3, as claimed: the output does not depend on the order of the input
C3_AnyOrder == (Returned \/ ConversionFailed) /\ input_data[1].iterable
                  => SameWhenExchanged

KeptSteps(items) ==
    {k \in 1..Len(items) :
        /\ IsObject(items[k])
        /\ ~IsStepZero(items[k])
        /\ IsClustered(items[k]) \/ IsOrdinary(items[k])}

DistinctIndexes(items) ==
    \A a \in KeptSteps(items) : \A b \in KeptSteps(items) :
        a # b => OriginalIndex(items[a]) # OriginalIndex(items[b])

OneStepZero(items) ==
    Cardinality({k \in 1..Len(items) :
                    IsObject(items[k]) /\ IsStepZero(items[k])}) <= 1

\* C3, amended: the output does not depend on the order of the input when
\* the ordinary and clustered steps have pairwise distinct originalIndex
\* and at most one record is flagged isStepZero
C3_AnyOrderDistinct ==
    ((Returned \/ ConversionFailed) /\ input_data[1].iterable
        /\ DistinctIndexes(InputItems) /\ OneStepZero(InputItems))
    => SameWhenExchanged

\* two steps given in descending order of originalIndex, behind a step zero
C3_Witness ==
    /\ Returned
    /\ DistinctIndexes(InputItems) /\ OneStepZero(InputItems)
    /\ step_zero # None
    /\ Len(all_steps) = 2
    /\ all_steps[1] > all_steps[2]
    /\ Len(result) = 3

\* entry Offset + k is the entry of step all_steps[k]
EmittedInMergeOrder ==
    /\ Len(result) = Offset + Len(all_steps)
    /\ \A k \in 1..Len(all_steps) :
          result[Offset + k].actions = ParsedActions(InputItems[all_steps[k]])

AscendingIndexes ==
    \A a \in 1..Len(all_steps) : \A b \in (a + 1)..Len(all_steps) :
        OriginalIndex(InputItems[all_steps[a]])
            <= OriginalIndex(InputItems[all_steps[b]])

Tied(a, b) ==
    OriginalIndex(InputItems[all_steps[a]])
        = OriginalIndex(InputItems[all_steps[b]])

\* C4, as claimed: ascending originalIndex, and steps of equal
\* originalIndex in the order of the input array
C4_StableInInputOrder ==
    Returned =>
        /\ EmittedInMergeOrder
        /\ AscendingIndexes
        /\ \A a \in 1..Len(all_steps) : \A b \in (a + 1)..Len(all_steps) :
              Tied(a, b) => all_steps[a] < all_steps[b]

\* C4, amended: ascending originalIndex; of two steps of equal
\* originalIndex an ordinary one comes before a clustered one, and two of
\* the same kind come in the order of the input array
C4_StableInConcatenation ==
    Returned =>
        /\ EmittedInMergeOrder
        /\ AscendingIndexes
        /\ \A a \in 1..Len(all_steps) : \A b \in (a + 1)..Len(all_steps) :
              Tied(a, b) =>
                 LET x == InputItems[all_steps[a]]
                     y == InputItems[all_steps[b]]
                 IN  /\ ~(IsClustered(x) /\ IsOrdinary(y))
                     /\ IsClustered(x) = IsClustered(y)
                           => all_steps[a] < all_steps[b]

\* a clustered step ahead of an ordinary one in the input, a second
\* ordinary one behind, all of one originalIndex
C4_Witness ==
    /\ Returned
    /\ Len(all_steps) = 3
    /\ Tied(1, 2) /\ Tied(2, 3)
    /\ all_steps[3] < all_steps[1]
    /\ all_steps[1] < all_steps[2]

Root == result[1]

LastStep == InputItems[all_steps[Len(all_steps)]]

\* C5: with a step zero and at least one other step, the patch of the root
\* is the observation of the step of the largest originalIndex among all
\* the other steps, the step of the last entry
C5_PatchOfLastStep ==
    (Returned /\ step_zero # None /\ all_steps # <<>>) =>
        IF IsClustered(LastStep)
        THEN \E n \in 1..Len(Get(LastStep, "observations", <<>>)) :
                Root.metadata.patch = Some(LastStep.observations[n])
        ELSE Root.metadata.patch
                = Some(Get(LastStep, "observation",
                           <<"No observation available">>))

\* C6: with a step zero and no other step, the patch of the root is a
\* fixed placeholder string, not None
C6_PatchPlaceholder ==
    (Returned /\ step_zero # None /\ all_steps = <<>>) =>
        Root.metadata.patch = Some(<<"No observation available">>)

IsRootEntry(e) ==
    /\ e.id = 0
    /\ e.parent = None
    /\ Len(e.actions) = 1
    /\ Has(e.actions[1], "name")
    /\ e.actions[1].name = "beginInteraction"
    /\ e.metadata.stage = "MAIN"

Flagged(items) ==
    \E k \in 1..Len(items) : Has(items[k], "isStepZero") /\ items[k].isStepZero

\* C7: there is a root entry exactly if a record of the input is flagged
\* isStepZero, never more than one; every other entry has stage TESTING;
\* an empty array converts to an empty array
C7_OneRootIffFlagged ==
    Returned =>
        LET roots == {k \in 1..Len(result) :
                        \/ result[k].metadata.stage = "MAIN"
                        \/ \E i \in 1..Len(result[k].actions) :
                              /\ Has(result[k].actions[i], "name")
                              /\ result[k].actions[i].name = "beginInteraction"}
        IN  /\ Flagged(InputItems) => (roots = {1} /\ IsRootEntry(Root))
            /\ ~Flagged(InputItems) => roots = {}
            /\ \A k \in 1..Len(result) :
                  k \notin roots => result[k].metadata.stage = "TESTING"
            /\ InputItems = <<>> => result = <<>>

\* two flagged records and a step: one root, one entry behind it
C7_Witness ==
    /\ Returned
    /\ Cardinality({k \in 1..Len(InputItems) :
                       IsStepZero(InputItems[k])}) = 2
    /\ Len(result) = 2
    /\ IsRootEntry(Root)

\* C8: the output file is written only behind a conversion that returned;
\* a missing input, malformed JSON or an exception of the conversion ends
\* the run with a status other than 0 and nothing written; status 0 is
\* reached only with the whole result written
C8_AllOrNothing ==
    /\ output_file # None =>
          /\ input_data # None
          /\ pc \in {"dump", "exited"}
          /\ next_step = Len(all_steps) + 1
          /\ "Error during conversion" \notin {printed[k] : k \in 1..Len(printed)}
    /\ \A k \in 1..Len(printed) :
          printed[k] \in {"Error: Input file not found.",
                          "Error: Invalid JSON in input file",
                          "Error during conversion"}
          => /\ pc = "exited"
             /\ exit_code # None /\ exit_code # Some(0)
             /\ output_file = None
    /\ exit_code = Some(0) =>
          output_file = Some([complete |-> TRUE, entries |-> result])
    /\ pc = "exited" <=> exit_code # None

\* the conversion raised behind an entry it had built: nothing is written
C8_Witness ==
    /\ ConversionFailed
    /\ Len(result) >= 1
    /\ output_file = None
    /\ exit_code = Some(1)

\* C12: from the call on, returned or raised, the input array holds the
\* records of the document as read, in the same order, each with the
\* fields and values it had
C12_InputUnchanged ==
    input_data # None =>
        input_data = Some([iterable |-> file.iterable, items |-> file.items])

\* two ordinary steps given in descending order: the sort moved them in
\* the list of the steps, the array is as it was
C12_Witness ==
    /\ Returned
    /\ Len(trajectory_steps) = 2
    /\ trajectory_steps[1] > trajectory_steps[2]
    /\ OriginalIndex(InputItems[1]) > OriginalIndex(InputItems[2])
    /\ InputItems = file.items

\* the entry of the k-th merged step, and the tracker ahead of it
EntryOf(k) == result[Offset + k]

TrackerBefore(k) ==
    IF k = 1 THEN InitialWorkspace
    ELSE result[Offset + k - 1].metadata.workspace

\* the positions of the records of an entry that expose output.workspace
Exposing(entry) ==
    {n \in 1..Len(entry.actions) : ProducesWorkspace(entry.actions[n])}

\* C15: the actions of the entry of a clustered step are the
\* classifications of its (action, observation) pairs in order, the empty
\* text where the observation is missing; its workspace is the one of the
\* last record that exposes output.workspace, the tracker as it was if
\* none does.  For an ordinary step the first such record is taken.
\* Stated of every entry in the state in which the loop has just appended
\* it; the loop changes result by Append alone.
C15_ClusteredLastOrdinaryFirst ==
    \A k \in 1..Len(all_steps) :
        (pc = "loop" /\ Len(result) = Offset + k) =>
            LET step == InputItems[all_steps[k]]
                entry == EntryOf(k)
                with == Exposing(entry)
                actions == Get(step, "actions", <<>>)
                observations == Get(step, "observations", <<>>)
            IN  /\ IsClustered(step) =>
                      /\ Len(entry.actions) = Len(actions)
                      /\ \A n \in 1..Len(actions) :
                            <<entry.actions[n]>> =
                                parse_action(actions[n],
                                    IF n <= Len(observations)
                                    THEN observations[n] ELSE <<>>)
                      /\ with # {} =>
                            entry.metadata.workspace =
                               entry.actions[CHOOSE n \in with :
                                                \A m \in with : m <= n]
                                  .output[1].workspace
                /\ IsOrdinary(step) =>
                      /\ entry.actions =
                            parse_action(Get(step, "action", <<>>),
                                         Get(step, "observation", <<>>))
                      /\ with # {} =>
                            entry.metadata.workspace =
                               entry.actions[Min(with)].output[1].workspace
                /\ with = {} => entry.metadata.workspace = TrackerBefore(k)

\* a clustered step with two records that expose different workspaces,
\* and one with an action that has no observation and exposes none,
\* behind an entry that set the tracker
C15_Witness ==
    /\ Returned
    /\ \E k \in 1..Len(all_steps) :
          /\ IsClustered(InputItems[all_steps[k]])
          /\ Exposing(EntryOf(k)) = {1, 2}
          /\ EntryOf(k).actions[1].output # EntryOf(k).actions[2].output
          /\ EntryOf(k).metadata.workspace
                = EntryOf(k).actions[2].output[1].workspace
    /\ \E k \in 2..Len(all_steps) :
          /\ IsClustered(InputItems[all_steps[k]])
          /\ Len(InputItems[all_steps[k]].observations)
                < Len(InputItems[all_steps[k]].actions)
          /\ EntryOf(k).actions[2].output = Some([stdout |-> <<>>])
          /\ EntryOf(k).metadata.workspace # InitialWorkspace

\* the positions of the records that are not flagged isStepZero and
\* have clustered == value
Counted(items, value) ==
    {k \in 1..Len(items) :
        /\ ~(Has(items[k], "isStepZero") /\ items[k].isStepZero)
        /\ Has(items[k], "clustered")
        /\ items[k].clustered = value}

CountedSteps(items) == Counted(items, FALSE) \cup Counted(items, TRUE)

\* C16: a returned conversion has one entry for the root if a record is
\* flagged, and one for each record that is not flagged and has clustered
\* false or true; a record without the clustered field, a flagged record
\* and an item that is no object give no entry, and no error: a
\* conversion fails only on a record that is counted
C16_EntryCount ==
    /\ Returned =>
          /\ Len(result) = (IF Flagged(InputItems) THEN 1 ELSE 0)
                              + Cardinality(Counted(InputItems, FALSE))
                              + Cardinality(Counted(InputItems, TRUE))
          /\ Len(result) = Offset + Len(all_steps)
          /\ \A k \in CountedSteps(InputItems) :
                Cardinality({j \in 1..Len(all_steps) : all_steps[j] = k}) = 1
          /\ \A j \in 1..Len(all_steps) :
                all_steps[j] \in CountedSteps(InputItems)
    /\ (ConversionFailed /\ input_data[1].iterable) =>
          \E k \in CountedSteps(InputItems) : StepRaises(InputItems[k])

\* a flagged record with clustered false, an item that is no object and an
\* ordinary step: the root and one entry
C16_Witness ==
    /\ Returned
    /\ Len(InputItems) = 3
    /\ IsStepZero(InputItems[1]) /\ Has(InputItems[1], "clustered")
    /\ ~IsObject(InputItems[2])
    /\ 3 \in Counted(InputItems, FALSE)
    /\ Len(result) = 2
    /\ result[2].id = 1

\* the pure form of the conversion and its steps agree
ReturnsConvertTrajectory ==
    (Returned \/ ConversionFailed) /\ input_data[1].iterable
        => convert_trajectory(InputItems) = Outcome

====
